---- MODULE Spec2Model ----
(***************************************************************************)
(* A model of securesystemslib/interface.py: password acquisition,         *)
(* generation and writing of RSA / Ed25519 / ECDSA key pairs, and the      *)
(* import of the written key files.                                        *)
(*                                                                         *)
(* The routines of securesystemslib.keys, securesystemslib.util and        *)
(* securesystemslib.formats that interface.py calls are not part of the    *)
(* source under study; they are modelled from the specification's          *)
(* description of the external interfaces (sections 4.3, 4.4, 6 and 7).    *)
(***************************************************************************)
EXTENDS Integers, Sequences, FiniteSets, TLC

\* ------------------------------------------------------------------ bounds
\* Number of top-level calls made in one behaviour.
MaxCalls == 2
\* Number of distinct key materials the generators can produce per key type.
MaxKey == 1
\* Number of prompt rounds of _get_password that are explored.
MaxRounds == 2

\* --------------------------------------------------------------- constants
DEFAULT_RSA_KEY_BITS == 3072
\* Floor of RSAKEYBITS_SCHEMA.
MinRsaBits == 2048

Procs == {1, 2}
\* The callers of the sequential specification.
SeqProcs == {1}

KeyTypes == {"rsa", "ed25519", "ecdsa-sha2-nistp256"}
Passwords == {"", "a", "b"}
\* The passwords given or typed when a key pair is created.
NewPasswords == {"", "a"}
BitsValues == {1024, DEFAULT_RSA_KEY_BITS}
RsaSchemes == {"rsassa-pss-sha256"}
SchemeValues == RsaSchemes \cup {"bogus"}
HASH_ALGORITHMS == {"sha256", "sha512"}

\* ------------------------------------------------------------ argument values
\* An argument is absent (None), a string, or a value of another type.
ArgNone == [t |-> "none", v |-> ""]
ArgStr(s) == [t |-> "str", v |-> s]
ArgBad == [t |-> "bad", v |-> ""]
PasswordArgs == {ArgNone, ArgBad} \cup {ArgStr(p) : p \in Passwords}
NewPasswordArgs == {ArgNone, ArgBad} \cup {ArgStr(p) : p \in NewPasswords}

\* Optional values (return values that may be missing).
None == << >>
Some(x) == << x >>

\* ------------------------------------------------------------------ key data
NoVal == [half |-> "none", kt |-> "", n |-> 0]
PublicVal(kt, n) == [half |-> "public", kt |-> kt, n |-> n]
PrivateVal(kt, n) == [half |-> "private", kt |-> kt, n |-> n]
\* The public value that belongs to a private value.
PublicOf(private) == [private EXCEPT !.half = "public"]

NoKeyId == [keytype |-> "", scheme |-> "", public |-> NoVal]
\* keyid: a digest of keytype, scheme and the public value only.
KeyIdOf(keytype, scheme, public) ==
  [keytype |-> keytype, scheme |-> scheme, public |-> public]

DefaultScheme(kt) == IF kt = "rsa" THEN "rsassa-pss-sha256" ELSE kt

NoKey ==
  [keytype |-> "", scheme |-> "", keyid |-> NoKeyId, public |-> NoVal,
   private |-> NoVal, keyid_hash_algorithms |-> {}]

KeyObject(keytype, scheme, public, private) ==
  [keytype |-> keytype, scheme |-> scheme,
   keyid |-> KeyIdOf(keytype, scheme, public),
   public |-> public, private |-> private, keyid_hash_algorithms |-> {}]

\* generate_rsa_key / generate_ed25519_key / generate_ecdsa_key: a fresh key
\* object with keyid computed and both halves present.
generate_key(kt, n) ==
  KeyObject(kt, DefaultScheme(kt), PublicVal(kt, n), PrivateVal(kt, n))

\* --------------------------------------------------------------------- paths
NoPath == [base |-> "", keyid |-> NoKeyId, ext |-> ""]
GivenPath == [base |-> "k", keyid |-> NoKeyId, ext |-> ""]
\* os.path.join(os.getcwd(), keyid)
DefaultPath(keyid) == [base |-> "cwd", keyid |-> keyid, ext |-> ""]
\* filepath + '.pub'
PubPath(p) == [p EXCEPT !.ext = ".pub"]

ArgNoPath == [t |-> "none", v |-> NoPath]
ArgPath(p) == [t |-> "str", v |-> p]
ArgBadPath == [t |-> "bad", v |-> NoPath]

\* ------------------------------------------------------------- file contents
\* What a key file holds.  lock is None for plaintext, Some(password) for
\* content that only that password opens.
NoPayload ==
  [fmt |-> "", keytype |-> "", scheme |-> "", public |-> NoVal,
   private |-> NoVal, lock |-> None]
\* The PEM text of an RSA public or private value.
PemText(public, private) ==
  [NoPayload EXCEPT !.fmt = "pem", !.public = public, !.private = private]

\* A file: absent, empty, a strict prefix of data, or all of data.
Absent == [data |-> NoPayload, fill |-> "absent"]
Empty == [data |-> NoPayload, fill |-> "empty"]
Partial(d) == [data |-> d, fill |-> "partial"]
Complete(d) == [data |-> d, fill |-> "complete"]

\* ---------------------------------------- securesystemslib.keys (external)
Ok(key) == [ok |-> TRUE, key |-> key, kind |-> "", attempts |-> 1]
Err(kind) == [ok |-> FALSE, key |-> NoKey, kind |-> kind, attempts |-> 1]

\* Password-protected PEM of an RSA private value.
create_rsa_encrypted_pem(private, password) ==
  [NoPayload EXCEPT !.fmt = "encrypted-pem", !.private = private,
                    !.lock = Some(password)]

\* password is None (unencrypted PEM expected) or Some(p).
import_rsakey_from_private_pem(pem, scheme, password) ==
  IF /\ pem.fmt \in {"pem", "encrypted-pem"}
     /\ pem.private.half = "private"
     /\ pem.private.kt = "rsa"
     /\ pem.lock = password
  THEN Ok(KeyObject("rsa", scheme, PublicOf(pem.private), pem.private))
  ELSE Err("CryptoError")

import_rsakey_from_public_pem(pem) ==
  IF pem.fmt = "pem" /\ pem.public.half = "public" /\ pem.public.kt = "rsa"
  THEN Ok(KeyObject("rsa", DefaultScheme("rsa"), pem.public, NoVal))
  ELSE Err("FormatError")

\* The encrypted-key envelope of a whole key object.
encrypt_key(key_object, password) ==
  [fmt |-> "envelope", keytype |-> key_object.keytype,
   scheme |-> key_object.scheme, public |-> key_object.public,
   private |-> key_object.private, lock |-> Some(password)]

decrypt_key(encrypted_key, password) ==
  IF encrypted_key.fmt = "envelope" /\ encrypted_key.lock = Some(password)
  THEN Ok(KeyObject(encrypted_key.keytype, encrypted_key.scheme,
                    encrypted_key.public, encrypted_key.private))
  ELSE Err("CryptoError")

\* The metadata form {keytype, scheme, keyval}; keyval holds the private
\* value only when private is TRUE.
format_keyval_to_metadata(keytype, scheme, keyval, private) ==
  [fmt |-> "json", keytype |-> keytype, scheme |-> scheme,
   public |-> keyval.public,
   private |-> IF private THEN keyval.private ELSE NoVal, lock |-> None]

\* util.load_json_file followed by keys.format_metadata_to_key: the key
\* object of a metadata file, keyid recomputed, private material dropped.
format_metadata_to_key(metadata) ==
  IF metadata.fmt = "json" /\ metadata.public.half = "public"
  THEN Ok(KeyObject(metadata.keytype, metadata.scheme, metadata.public, NoVal))
  ELSE Err("Error")

\* --------------------------------------------------------------------- state
VARIABLES
  call,      \* call[c]: the call process c is making (arguments, locals, result)
  fs,        \* fs[p]: the file at destination path p, for the files that exist
  tmp,       \* tmp[c]: the temporary file process c holds
  dirs,      \* the parent directories that exist
  calls,     \* number of calls started
  lastGen    \* the last key pair a generate call wrote and returned

vars == << call, fs, tmp, dirs, calls, lastGen >>

\* The file at path p.
File(p) == IF p \in DOMAIN fs THEN fs[p] ELSE Absent

NoErr == [kind |-> "", named |-> ""]
NoGen == [valid |-> FALSE, path |-> NoPath, key |-> NoKey, password |-> ""]

Idle ==
  [op |-> "", kt |-> "", status |-> "idle", pc |-> "done",
   a_filepath |-> ArgNoPath, a_password |-> ArgNone,
   a_bits |-> DEFAULT_RSA_KEY_BITS, a_scheme |-> "",
   key |-> NoKey, filepath |-> NoPath, password |-> ArgNone,
   public |-> NoPayload, private |-> NoPayload,
   confirm |-> FALSE, gp_password |-> None, gp_password2 |-> None,
   inputs |-> << >>, notices |-> 0,
   encCalls |-> 0, decCalls |-> 0, decoded |-> "",
   parentDir |-> FALSE, pubMoved |-> FALSE, privMoved |-> FALSE,
   pubLast |-> FALSE, privLast |-> FALSE,
   err |-> NoErr, retPath |-> NoPath, retKey |-> NoKey, retPw |-> None,
   pre |-> [pub |-> Absent, priv |-> Absent]]

\* No call has been made, no key file exists; cs are the calling processes.
InitWith(cs) ==
  /\ call = [c \in cs |-> Idle]
  /\ fs = [p \in {} |-> Absent]
  /\ tmp = [c \in cs |-> Absent]
  /\ dirs = {"cwd"}
  /\ calls = 0
  /\ lastGen = NoGen

Init == InitWith(SeqProcs)

GenerateOps == {"generate_and_write"}
ImportPrivateOps == {"import_privatekey"}

Raise(r, kind, named) ==
  [r EXCEPT !.status = "error", !.pc = "done",
            !.err = [kind |-> kind, named |-> named]]

CanStart(c) == call[c].status = "idle" /\ calls < MaxCalls

\* The caller has taken the result (return value or exception) of its call;
\* the call's arguments and locals are gone, and with them the temporary
\* file object a failed call still held.
CallerContinues(c) ==
  /\ call[c].status \in {"returned", "error"}
  /\ call' = [call EXCEPT ![c] = Idle]
  /\ tmp' = [tmp EXCEPT ![c] = Absent]
  /\ UNCHANGED << fs, dirs, calls, lastGen >>

NewCall(op, kt) ==
  [Idle EXCEPT !.op = op, !.kt = kt, !.status = "running"]

\* The files at filepath and filepath + '.pub' as they are now.
FilesAt(p) == [pub |-> File(PubPath(p)), priv |-> File(p)]

\* ------------------------------------------------------------- _get_password
\* Faulty variant of NeedsPrompt: 'if not password', which also prompts for
\* the empty string.
NeedsPromptIfFalsy(password) == password.t = "none" \/ password = ArgStr("")

\* if password is None: the caller prompts exactly when no password was given.
NeedsPrompt(password) == password.t = "none"

\* The confirm argument the key-creation routines pass to _get_password.
CreationConfirm == FALSE
\* The confirm argument the private-import routines pass to _get_password.
ImportConfirm == FALSE

\* Faulty variant of Matches: the confirmation is read but not compared.
MatchesAnything(password, password2) == TRUE

\* if password == password2
Matches(password, password2) == password = password2

\* Where a caller continues once _get_password has returned.
AfterPrompt(r) ==
  IF r.op \in GenerateOps THEN "check_password"
  ELSE IF r.op \in ImportPrivateOps THEN "import_read"
  ELSE "done"

\* return password
GetpassReturn(r, value) ==
  IF r.op = "_get_password"
  THEN [r EXCEPT !.status = "returned", !.pc = "done", !.retPw = Some(value)]
  ELSE [r EXCEPT !.password = ArgStr(value), !.pc = AfterPrompt(r)]

\* A direct call of _get_password(prompt, confirm).
GetPasswordStart(c, confirm) ==
  /\ CanStart(c)
  /\ call' = [call EXCEPT ![c] =
       [NewCall("_get_password", "") EXCEPT !.confirm = confirm, !.pc = "getpass"]]
  /\ calls' = calls + 1
  /\ UNCHANGED << fs, tmp, dirs, lastGen >>

\* Faulty variant of GetpassEntry: an entry equal to the confirmation of the
\* round before is taken as a match.
GetpassEntryStraddle(c) ==
  LET r == call[c] IN
  /\ r.status = "running" /\ r.pc = "getpass"
  /\ Len(r.inputs) < 2 * MaxRounds
  /\ \E e \in (IF r.op \in GenerateOps THEN NewPasswords ELSE Passwords) :
       LET r1 == [r EXCEPT !.gp_password = Some(e), !.gp_password2 = None,
                           !.inputs = Append(r.inputs, e)]
       IN call' = [call EXCEPT ![c] =
            IF ~r.confirm \/ r.gp_password2 = Some(e) THEN GetpassReturn(r1, e)
            ELSE [r1 EXCEPT !.pc = "getpass_confirm"]]
  /\ UNCHANGED << fs, tmp, dirs, calls, lastGen >>

\* password = getpass.getpass(prompt); if not confirm: return password
GetpassEntry(c) ==
  LET r == call[c] IN
  /\ r.status = "running" /\ r.pc = "getpass"
  /\ Len(r.inputs) < 2 * MaxRounds
  /\ \E e \in (IF r.op \in GenerateOps THEN NewPasswords ELSE Passwords) :
       LET r1 == [r EXCEPT !.gp_password = Some(e), !.gp_password2 = None,
                           !.inputs = Append(r.inputs, e)]
       IN call' = [call EXCEPT ![c] =
            IF ~r.confirm THEN GetpassReturn(r1, e)
            ELSE [r1 EXCEPT !.pc = "getpass_confirm"]]
  /\ UNCHANGED << fs, tmp, dirs, calls, lastGen >>

\* password2 = getpass.getpass('Confirm: '); return on a match, otherwise
\* print 'Mismatch; try again.' and loop.
GetpassConfirm(c) ==
  LET r == call[c] IN
  /\ r.status = "running" /\ r.pc = "getpass_confirm"
  /\ \E e \in Passwords :
       LET r1 == [r EXCEPT !.gp_password2 = Some(e),
                           !.inputs = Append(r.inputs, e)]
       IN call' = [call EXCEPT ![c] =
            IF Matches(r.gp_password[1], e) THEN GetpassReturn(r1, r.gp_password[1])
            ELSE [r1 EXCEPT !.notices = r.notices + 1, !.pc = "getpass"]]
  /\ UNCHANGED << fs, tmp, dirs, calls, lastGen >>

\* -------------------------------------------------------- generate_and_write_*
\* Faulty variant of PublicFileContents: the whole key goes to the .pub file
\* (the private PEM for RSA, private=True for the metadata form).
PublicFileContentsWithPrivate(key) ==
  IF key.keytype = "rsa" THEN PemText(key.public, key.private)
  ELSE format_keyval_to_metadata(key.keytype, key.scheme,
         [public |-> key.public, private |-> key.private], TRUE)

\* The bytes written to <filepath>.pub: the public PEM for RSA, the metadata
\* form without the private value (private=False) for Ed25519 and ECDSA.
PublicFileContents(key) ==
  IF key.keytype = "rsa" THEN PemText(key.public, NoVal)
  ELSE format_keyval_to_metadata(key.keytype, key.scheme,
         [public |-> key.public, private |-> key.private], FALSE)

\* RSA: if len(password) the private PEM is encrypted, otherwise left as is.
RsaPrivateContents(private, password) ==
  IF password # "" THEN create_rsa_encrypted_pem(private, password)
  ELSE PemText(NoVal, private)

\* Ed25519 / ECDSA: encrypted_key = encrypt_key(key, password), whatever
\* the password.
EncryptedKeyContents(key, password) == encrypt_key(key, password)

\* if not filepath: filepath = os.path.join(os.getcwd(), key['keyid'])
ResolvePath(a_filepath, key) ==
  IF a_filepath.t = "none" THEN ArgPath(DefaultPath(key.keyid)) ELSE a_filepath

\* Entry of generate_and_write_{rsa,ed25519,ecdsa}_keypair up to the password
\* prompt: the bits check (RSA), key generation, the default filepath and the
\* filepath check.
GenerateStart(c, kt, a_filepath, a_password, a_bits) ==
  /\ CanStart(c)
  /\ \E n \in 1..MaxKey :
       LET r0 == [NewCall("generate_and_write", kt) EXCEPT
                    !.a_filepath = a_filepath, !.a_password = a_password,
                    !.password = a_password, !.a_bits = a_bits]
           key == generate_key(kt, n)
           path == ResolvePath(a_filepath, key)
           r1 == [r0 EXCEPT !.key = key]
           r2 == [r1 EXCEPT !.filepath = path.v, !.pre = FilesAt(path.v)]
       IN call' = [call EXCEPT ![c] =
            IF kt = "rsa" /\ a_bits < MinRsaBits THEN Raise(r0, "FormatError", "bits")
            ELSE IF path.t # "str" THEN Raise(r1, "FormatError", "filepath")
            ELSE IF NeedsPrompt(a_password)
                 THEN [r2 EXCEPT !.confirm = CreationConfirm, !.pc = "getpass"]
                 ELSE [r2 EXCEPT !.pc = "check_password"]]
  /\ calls' = calls + 1
  /\ UNCHANGED << fs, tmp, dirs, lastGen >>

\* PASSWORD_SCHEMA.check_match(password); RSA then encrypts the private PEM
\* if the password is not empty.
GenCheckPassword(c) ==
  LET r == call[c] IN
  /\ r.status = "running" /\ r.pc = "check_password"
  /\ \E ok \in BOOLEAN :
       call' = [call EXCEPT ![c] =
         IF r.password.t # "str" THEN Raise(r, "FormatError", "password")
         ELSE IF r.kt # "rsa" THEN [r EXCEPT !.pc = "ensure_parent_dir"]
         ELSE IF r.password.v = ""
              THEN [r EXCEPT !.private = RsaPrivateContents(r.key.private, ""),
                             !.pc = "ensure_parent_dir"]
         ELSE IF ok
              THEN [r EXCEPT !.private = RsaPrivateContents(r.key.private, r.password.v),
                             !.encCalls = r.encCalls + 1,
                             !.pc = "ensure_parent_dir"]
              ELSE Raise([r EXCEPT !.encCalls = r.encCalls + 1], "CryptoError", "")]
  /\ UNCHANGED << fs, tmp, dirs, calls, lastGen >>

\* Faulty variant of EnsureParentDir: the private half is written next, ahead
\* of the public half.
EnsureParentDirThenPrivate(c) ==
  LET r == call[c] IN
  /\ r.status = "running" /\ r.pc = "ensure_parent_dir"
  /\ \/ /\ dirs' = dirs \cup {r.filepath.base}
        /\ call' = [call EXCEPT ![c] = [r EXCEPT !.parentDir = TRUE, !.pc = "priv_temp"]]
     \/ /\ r.filepath.base \notin dirs
        /\ dirs' = dirs
        /\ call' = [call EXCEPT ![c] = Raise(r, "IOError", "")]
  /\ UNCHANGED << fs, tmp, calls, lastGen >>

\* securesystemslib.util.ensure_parent_dir(filepath)
EnsureParentDir(c) ==
  LET r == call[c] IN
  /\ r.status = "running" /\ r.pc = "ensure_parent_dir"
  /\ \/ /\ dirs' = dirs \cup {r.filepath.base}
        /\ call' = [call EXCEPT ![c] = [r EXCEPT !.parentDir = TRUE, !.pc = "pub_temp"]]
     \/ /\ r.filepath.base \notin dirs
        /\ dirs' = dirs
        /\ call' = [call EXCEPT ![c] = Raise(r, "IOError", "")]
  /\ UNCHANGED << fs, tmp, calls, lastGen >>

\* file_object = securesystemslib.util.TempFile()
TempFile(c, at, next) ==
  LET r == call[c] IN
  /\ r.status = "running" /\ r.pc = at
  /\ \/ /\ tmp' = [tmp EXCEPT ![c] = Empty]
        /\ call' = [call EXCEPT ![c] = [r EXCEPT !.pc = next]]
     \/ /\ tmp' = tmp
        /\ call' = [call EXCEPT ![c] = Raise(r, "IOError", "")]
  /\ UNCHANGED << fs, dirs, calls, lastGen >>

PubTempFile(c) == TempFile(c, "pub_temp", "pub_write")
PrivTempFile(c) == TempFile(c, "priv_temp", "priv_write")

\* file_object.write(<public contents>): all of the contents reach the
\* temporary file, or the write fails and the temporary file is discarded.
PubWrite(c) ==
  LET r == call[c]
      contents == PublicFileContents(r.key)
  IN
  /\ r.status = "running" /\ r.pc = "pub_write"
  /\ \/ /\ tmp' = [tmp EXCEPT ![c] = Complete(contents)]
        /\ call' = [call EXCEPT ![c] = [r EXCEPT !.public = contents, !.pc = "pub_move"]]
     \/ /\ tmp' = [tmp EXCEPT ![c] = Absent]
        /\ call' = [call EXCEPT ![c] = Raise([r EXCEPT !.public = contents], "IOError", "")]
  /\ UNCHANGED << fs, dirs, calls, lastGen >>

\* TempFile.move(destination): the temporary file is renamed onto the
\* destination, or the move fails and the temporary file is discarded.
MoveInto(c, dest) ==
  /\ fs' = [p \in DOMAIN fs \cup {dest} |-> IF p = dest THEN tmp[c] ELSE fs[p]]
  /\ tmp' = [tmp EXCEPT ![c] = Absent]

\* The call records once c, whose record becomes r1, has renamed its
\* temporary file onto dest: c made the last rename onto dest, and no other
\* call did.
Renamed(c, r1, dest) ==
  [d \in DOMAIN call |->
     IF d = c THEN r1
     ELSE IF PubPath(call[d].filepath) = dest THEN [call[d] EXCEPT !.pubLast = FALSE]
     ELSE IF call[d].filepath = dest THEN [call[d] EXCEPT !.privLast = FALSE]
     ELSE call[d]]

\* A generate call's rename of either half ends the validity of an earlier
\* pair written at the same paths.
Overwritten(dest) ==
  lastGen.valid /\ dest \in {lastGen.path, PubPath(lastGen.path)}

\* Faulty variant of PubMove: the temporary file is linked into place only
\* when <filepath>.pub does not exist yet, so the first writer wins.
PubMoveIfAbsent(c) ==
  LET r == call[c]
      dest == PubPath(r.filepath)
  IN
  /\ r.status = "running" /\ r.pc = "pub_move"
  /\ IF dest \in DOMAIN fs
     THEN /\ tmp' = [tmp EXCEPT ![c] = Absent]
          /\ fs' = fs
     ELSE MoveInto(c, dest)
  /\ call' = Renamed(c, [r EXCEPT !.pubMoved = TRUE, !.pubLast = TRUE,
                                 !.pc = "priv_temp"], dest)
  /\ lastGen' = IF Overwritten(dest) THEN NoGen ELSE lastGen
  /\ UNCHANGED << dirs, calls >>

\* file_object.move(filepath + '.pub')
PubMove(c) ==
  LET r == call[c]
      dest == PubPath(r.filepath)
  IN
  /\ r.status = "running" /\ r.pc = "pub_move"
  /\ \/ /\ MoveInto(c, dest)
        /\ call' = Renamed(c, [r EXCEPT !.pubMoved = TRUE, !.pubLast = TRUE,
                                       !.pc = "priv_temp"], dest)
        /\ lastGen' = IF Overwritten(dest) THEN NoGen ELSE lastGen
     \/ /\ tmp' = [tmp EXCEPT ![c] = Absent]
        /\ call' = [call EXCEPT ![c] = Raise(r, "IOError", "")]
        /\ UNCHANGED << fs, lastGen >>
  /\ UNCHANGED << dirs, calls >>

\* Faulty variant of PrivWrite: the private contents are written straight to
\* <filepath> instead of the temporary file, so a failed write leaves a
\* prefix of them there.
PrivWriteInPlace(c) ==
  LET r == call[c]
      contents == IF r.kt = "rsa" THEN r.private
                  ELSE encrypt_key(r.key, r.password.v)
      r1 == [r EXCEPT !.private = contents]
      put(file) == [p \in DOMAIN fs \cup {r.filepath} |->
                      IF p = r.filepath THEN file ELSE fs[p]]
  IN
  /\ r.status = "running" /\ r.pc = "priv_write"
  /\ \/ /\ fs' = put(Complete(contents))
        /\ call' = [call EXCEPT ![c] =
             [r1 EXCEPT !.privMoved = TRUE, !.status = "returned", !.pc = "done",
                        !.retPath = r.filepath]]
     \/ /\ fs' = put(Partial(contents))
        /\ call' = [call EXCEPT ![c] = Raise(r1, "IOError", "")]
  /\ tmp' = [tmp EXCEPT ![c] = Absent]
  /\ UNCHANGED << dirs, calls, lastGen >>

\* Ed25519 / ECDSA: encrypted_key = encrypt_key(key, password), then
\* file_object.write(encrypted_key).  RSA: file_object.write(private).
\* An error of encrypt_key propagates with nothing between TempFile() and
\* the raise to close or remove the temporary file, which is still there
\* when the error reaches the caller.
PrivWrite(c) ==
  LET r == call[c]
      rsa == r.kt = "rsa"
      contents == IF rsa THEN r.private
                  ELSE EncryptedKeyContents(r.key, r.password.v)
      r1 == IF rsa THEN r ELSE [r EXCEPT !.encCalls = r.encCalls + 1]
  IN
  /\ r.status = "running" /\ r.pc = "priv_write"
  /\ \/ /\ tmp' = [tmp EXCEPT ![c] = Complete(contents)]
        /\ call' = [call EXCEPT ![c] = [r1 EXCEPT !.private = contents, !.pc = "priv_move"]]
     \/ /\ ~rsa
        /\ tmp' = tmp
        /\ call' = [call EXCEPT ![c] = Raise(r1, "CryptoError", "")]
     \/ /\ tmp' = [tmp EXCEPT ![c] = Absent]
        /\ call' = [call EXCEPT ![c] = Raise([r1 EXCEPT !.private = contents], "IOError", "")]
  /\ UNCHANGED << fs, dirs, calls, lastGen >>

\* Faulty variant of PrivMove: the temporary file is linked into place only
\* when <filepath> does not exist yet, so the first writer wins.
PrivMoveIfAbsent(c) ==
  LET r == call[c]
      dest == r.filepath
  IN
  /\ r.status = "running" /\ r.pc = "priv_move"
  /\ IF dest \in DOMAIN fs
     THEN /\ tmp' = [tmp EXCEPT ![c] = Absent]
          /\ fs' = fs
     ELSE MoveInto(c, dest)
  /\ call' = Renamed(c, [r EXCEPT !.privMoved = TRUE, !.privLast = TRUE,
                                 !.status = "returned", !.pc = "done",
                                 !.retPath = r.filepath], dest)
  /\ lastGen' = NoGen
  /\ UNCHANGED << dirs, calls >>

\* file_object.move(filepath); return filepath
PrivMove(c) ==
  LET r == call[c]
      dest == r.filepath
  IN
  /\ r.status = "running" /\ r.pc = "priv_move"
  /\ \/ /\ MoveInto(c, dest)
        /\ call' = Renamed(c, [r EXCEPT !.privMoved = TRUE, !.privLast = TRUE,
                                       !.status = "returned", !.pc = "done",
                                       !.retPath = r.filepath], dest)
        /\ lastGen' = IF r.pubLast
                      THEN [valid |-> TRUE, path |-> r.filepath, key |-> r.key,
                            password |-> r.password.v]
                      ELSE NoGen
     \/ /\ tmp' = [tmp EXCEPT ![c] = Absent]
        /\ call' = [call EXCEPT ![c] = Raise(r, "IOError", "")]
        /\ UNCHANGED << fs, lastGen >>
  /\ UNCHANGED << dirs, calls >>

\* The steps of a generate call between the creation of its first temporary
\* file and its return.
FilePhase == {"pub_write", "pub_move", "priv_temp", "priv_write", "priv_move"}

\* The process dies in the file phase of a generate call: nothing is cleaned
\* up, and a write in progress leaves any prefix of its data in the temporary
\* file.
Crash(c) ==
  LET r == call[c] IN
  /\ r.status = "running" /\ r.op \in GenerateOps /\ r.pc \in FilePhase
  /\ call' = [call EXCEPT ![c] = [r EXCEPT !.status = "crashed", !.pc = "done"]]
  /\ \/ tmp' = tmp
     \/ /\ r.pc = "pub_write"
        /\ tmp' = [tmp EXCEPT ![c] = Partial(PublicFileContents(r.key))]
     \/ /\ r.pc = "priv_write" /\ r.kt = "rsa"
        /\ tmp' = [tmp EXCEPT ![c] = Partial(r.private)]
     \/ /\ r.pc = "priv_write" /\ r.kt # "rsa"
        /\ tmp' = [tmp EXCEPT ![c] = Partial(EncryptedKeyContents(r.key, r.password.v))]
  /\ UNCHANGED << fs, dirs, calls, lastGen >>

\* ------------------------------------------------------------------- import_*
\* What open(filepath).read() yields for decoding: the data of a complete
\* file; a truncated or empty file decodes as nothing.
ReadFile(file) == IF file.fill = "complete" THEN file.data ELSE NoPayload

\* The files a caller may ask to import: the given path and every file that
\* exists.
ImportablePaths == {GivenPath} \cup DOMAIN fs
ImportPathArgs == {ArgBadPath} \cup {ArgPath(p) : p \in ImportablePaths}

\* Faulty variant of RsaPemPassword: the password is passed on even when it
\* is empty.
RsaPemPasswordAlways(password) == Some(password)

\* RSA: import_rsakey_from_private_pem gets the password if len(password),
\* otherwise password=None.
RsaPemPassword(password) == IF password # "" THEN Some(password) ELSE None

\* Faulty variant of ImportDecode: a failed decryption is tried a second
\* time before the error is raised.
ImportDecodeTwice(kt, encrypted_key, scheme, password) ==
  LET res == IF kt = "rsa"
             THEN import_rsakey_from_private_pem(encrypted_key, scheme,
                    IF password # "" THEN Some(password) ELSE None)
             ELSE decrypt_key(encrypted_key, password)
  IN IF res.ok THEN res ELSE [res EXCEPT !.attempts = 2]

\* The single decode / decrypt call of a private-import routine.
ImportDecode(kt, encrypted_key, scheme, password) ==
  IF kt = "rsa"
  THEN import_rsakey_from_private_pem(encrypted_key, scheme, RsaPemPassword(password))
  ELSE decrypt_key(encrypted_key, password)

\* Faulty variant of CheckKeytype: the recovered keytype is not compared.
CheckKeytypeSkipped(key_object, expected) == TRUE

\* if key_object['keytype'] != <the routine's type>: raise FormatError
CheckKeytype(key_object, expected) == key_object.keytype = expected

\* key_object['keyid_hash_algorithms'] = securesystemslib.settings.HASH_ALGORITHMS
WithHashAlgorithms(key_object) ==
  [key_object EXCEPT !.keyid_hash_algorithms = HASH_ALGORITHMS]

\* Entry of import_{rsa,ed25519,ecdsa}_privatekey_from_file up to the
\* password prompt: the filepath check and (RSA) the scheme check.
ImportPrivateStart(c, kt, a_filepath, a_password, a_scheme) ==
  /\ CanStart(c)
  /\ LET r0 == [NewCall("import_privatekey", kt) EXCEPT
                  !.a_filepath = a_filepath, !.a_password = a_password,
                  !.password = a_password, !.a_scheme = a_scheme]
         r1 == [r0 EXCEPT !.filepath = a_filepath.v, !.pre = FilesAt(a_filepath.v)]
     IN call' = [call EXCEPT ![c] =
          IF a_filepath.t # "str" THEN Raise(r0, "FormatError", "filepath")
          ELSE IF kt = "rsa" /\ a_scheme \notin RsaSchemes
               THEN Raise(r1, "FormatError", "scheme")
          ELSE IF NeedsPrompt(a_password)
               THEN [r1 EXCEPT !.confirm = ImportConfirm, !.pc = "getpass"]
               ELSE [r1 EXCEPT !.pc = "import_read"]]
  /\ calls' = calls + 1
  /\ UNCHANGED << fs, tmp, dirs, lastGen >>

\* The rest of a private import: the password check, the read of the file,
\* the decode / decrypt call, the keytype check (Ed25519, ECDSA) and the
\* return of the key object.
ImportPrivateRead(c) ==
  LET r == call[c]
      file == File(r.filepath)
      res == ImportDecode(r.kt, ReadFile(file), r.a_scheme, r.password.v)
      r1 == [r EXCEPT !.decCalls = res.attempts,
                      !.decoded = IF res.ok THEN res.key.keytype ELSE ""]
  IN
  /\ r.status = "running" /\ r.pc = "import_read"
  /\ call' = [call EXCEPT ![c] =
       IF r.password.t # "str" THEN Raise(r, "FormatError", "password")
       ELSE IF file = Absent THEN Raise(r, "IOError", "")
       ELSE IF ~res.ok THEN Raise(r1, res.kind, "")
       ELSE IF r.kt = "rsa"
            THEN [r1 EXCEPT !.status = "returned", !.pc = "done", !.retKey = res.key]
       ELSE IF ~CheckKeytype(res.key, r.kt)
            THEN Raise(r1, "FormatError", res.key.keytype)
       ELSE [r1 EXCEPT !.status = "returned", !.pc = "done",
                       !.retKey = WithHashAlgorithms(res.key)]]
  /\ UNCHANGED << fs, tmp, dirs, calls, lastGen >>

\* import_{rsa,ed25519,ecdsa}_publickey_from_file
ImportPublic(c, kt, a_filepath) ==
  /\ CanStart(c)
  /\ LET r0 == [NewCall("import_publickey", kt) EXCEPT !.a_filepath = a_filepath]
         r1 == [r0 EXCEPT !.filepath = a_filepath.v]
         file == File(a_filepath.v)
         res == IF kt = "rsa" THEN import_rsakey_from_public_pem(ReadFile(file))
                ELSE format_metadata_to_key(ReadFile(file))
     IN call' = [call EXCEPT ![c] =
          IF a_filepath.t # "str" THEN Raise(r0, "FormatError", "filepath")
          ELSE IF file = Absent THEN Raise(r1, "IOError", "")
          ELSE IF ~res.ok THEN Raise(r1, "Error", "")
          ELSE IF kt # "rsa" /\ ~CheckKeytype(res.key, kt)
               THEN Raise(r1, "FormatError", res.key.keytype)
          ELSE [r1 EXCEPT !.status = "returned", !.pc = "done", !.retKey = res.key]]
  /\ calls' = calls + 1
  /\ UNCHANGED << fs, tmp, dirs, lastGen >>

\* ------------------------------------------------------------- specification
GeneratePathArgs == {ArgNoPath, ArgPath(GivenPath), ArgBadPath}

Step(c) ==
  \/ GetpassEntry(c)
  \/ \E kt \in KeyTypes, fp \in GeneratePathArgs, pw \in NewPasswordArgs :
       \E bits \in (IF kt = "rsa" THEN BitsValues ELSE {DEFAULT_RSA_KEY_BITS}) :
         GenerateStart(c, kt, fp, pw, bits)
  \/ GenCheckPassword(c)
  \/ EnsureParentDir(c)
  \/ PubTempFile(c)
  \/ PubWrite(c)
  \/ PubMove(c)
  \/ PrivTempFile(c)
  \/ PrivWrite(c)
  \/ PrivMove(c)
  \/ Crash(c)
  \/ \E kt \in KeyTypes, fp \in ImportPathArgs, pw \in PasswordArgs :
       \E scheme \in (IF kt = "rsa" THEN SchemeValues ELSE {""}) :
         ImportPrivateStart(c, kt, fp, pw, scheme)
  \/ ImportPrivateRead(c)
  \/ \E kt \in KeyTypes, fp \in ImportPathArgs : ImportPublic(c, kt, fp)
  \/ CallerContinues(c)

\* The key-file routines, one caller at a time: the library is synchronous
\* and single-threaded.  Every prompt these routines make is a
\* _get_password(confirm=False), which returns from GetpassEntry.
Next == \E c \in SeqProcs : Step(c)

Spec == Init /\ [][Next]_vars

\* Direct calls of _get_password, with and without confirmation.
StepPw(c) ==
  \/ \E confirm \in BOOLEAN : GetPasswordStart(c, confirm)
  \/ GetpassEntry(c)
  \/ GetpassConfirm(c)
  \/ CallerContinues(c)

NextPw == \E c \in SeqProcs : StepPw(c)

SpecPw == Init /\ [][NextPw]_vars

\* Two processes that call generate_and_write_* with the same filepath and a
\* given password, their steps interleaved in every order.
InitConc == InitWith(Procs)

\* The password the concurrent callers give.
ConcPasswords == {"a"}

StepConc(c) ==
  \/ \E kt \in KeyTypes, pw \in ConcPasswords :
       GenerateStart(c, kt, ArgPath(GivenPath), ArgStr(pw), DEFAULT_RSA_KEY_BITS)
  \/ GenCheckPassword(c)
  \/ EnsureParentDir(c)
  \/ PubTempFile(c)
  \/ PubWrite(c)
  \/ PubMove(c)
  \/ PrivTempFile(c)
  \/ PrivWrite(c)
  \/ PrivMove(c)
  \/ CallerContinues(c)

NextConc == \E c \in Procs : StepConc(c)

SpecConc == InitConc /\ [][NextConc]_vars

\* Direct calls of _get_password whose input source answers every prompt:
\* getpass.getpass returns once an entry is typed, and the statement after
\* it runs.
SpecPwFair ==
  /\ SpecPw
  /\ \A c \in SeqProcs : WF_vars(GetpassEntry(c)) /\ WF_vars(GetpassConfirm(c))

\* ===================================================================== claims
Calling == DOMAIN call
IsGenerate(r) == r.op \in GenerateOps /\ r.filepath # NoPath
Ended(r) == r.status \in {"returned", "error"}

\* A destination holds nothing, what it held before the call, or all of the
\* payload the call wrote for it.
Untorn(file, before, payload) ==
  \/ file = Absent
  \/ file = before
  \/ payload # NoPayload /\ file = Complete(payload)

\* C1: in every state of a generate_and_write_* call -- running, failed or
\* crashed -- the files at <filepath>.pub and <filepath> are each absent,
\* unchanged since before the call, or the complete new payload; no empty or
\* truncated file exists at a destination path.
C1_DestinationsNeverTorn ==
  /\ \A p \in DOMAIN fs : fs[p].fill = "complete"
  /\ \A c \in Calling :
       LET r == call[c] IN
       IsGenerate(r) =>
         /\ Untorn(File(PubPath(r.filepath)), r.pre.pub, r.public)
         /\ Untorn(File(r.filepath), r.pre.priv, r.private)

\* C1 witness: a call crashed in the middle of writing its private temporary
\* file, over a destination that held an earlier private key.
C1_Witness ==
  \E c \in Calling :
    /\ IsGenerate(call[c]) /\ call[c].status = "crashed"
    /\ tmp[c].fill = "partial" /\ call[c].pubMoved
    /\ call[c].pre.priv # Absent
    /\ File(call[c].filepath) = call[c].pre.priv

\* C2: a generate_and_write_* call that ends in an error has created or
\* changed neither <filepath>.pub nor <filepath>; a call that returns has
\* fully written both.
C2_NoPartialSuccess ==
  \A c \in Calling :
    LET r == call[c] IN
    IsGenerate(r) =>
      /\ r.status = "error" =>
           /\ File(PubPath(r.filepath)) = r.pre.pub
           /\ File(r.filepath) = r.pre.priv
      /\ r.status = "returned" =>
           /\ File(PubPath(r.filepath)) = Complete(r.public)
           /\ File(r.filepath) = Complete(r.private)

\* C3: on every key-creation path, a password acquired by prompting was
\* entered twice identically (confirmation required).
C3_CreationPasswordConfirmed ==
  \A c \in Calling :
    LET r == call[c]
        n == Len(r.inputs)
    IN
    (IsGenerate(r) /\ r.a_password.t = "none" /\ r.password.t = "str") =>
      /\ r.confirm
      /\ n >= 2
      /\ r.inputs[n - 1] = r.inputs[n]
      /\ r.password.v = r.inputs[n]

\* C4: for every key type, a generate_and_write_* call that returns with an
\* empty password wrote the private payload in plaintext without calling the
\* encryption primitive, and with a non-empty password wrote only the
\* encrypted form.
C4_EncryptionIffPasswordNonEmpty ==
  \A c \in Calling :
    LET r == call[c] IN
    (IsGenerate(r) /\ r.status = "returned") =>
      IF r.password.v = ""
      THEN r.encCalls = 0 /\ File(r.filepath).data.lock = None
      ELSE r.encCalls = 1 /\ File(r.filepath).data.lock = Some(r.password.v)

IsTypedImport(r) ==
  r.op \in ImportPrivateOps /\ r.kt \in {"ed25519", "ecdsa-sha2-nistp256"}

\* C5: when the Ed25519 or ECDSA private import decrypts a file to a key of
\* another keytype, the call ends in a format error naming the keytype found
\* and returns no key; every key these routines return has the routine's own
\* keytype.
C5_KeytypeMismatchRejected ==
  \A c \in Calling :
    LET r == call[c] IN
    IsTypedImport(r) =>
      /\ (r.decoded # "" /\ r.decoded # r.kt) =>
           /\ r.status = "error"
           /\ r.err = [kind |-> "FormatError", named |-> r.decoded]
           /\ r.retKey = NoKey
      /\ r.status = "returned" => r.retKey.keytype = r.kt

\* C5 witness: the ECDSA private import decrypted an Ed25519 key file.
C5_Witness ==
  \E c \in Calling :
    /\ IsTypedImport(call[c]) /\ call[c].kt = "ecdsa-sha2-nistp256"
    /\ call[c].decoded = "ed25519" /\ call[c].status = "error"

\* The call imports, with the routine of the matching key type and default
\* arguments, a file of the pair that lastGen wrote.
ImportsLastGen(r, path) ==
  /\ lastGen.valid /\ Ended(r)
  /\ r.filepath = path
  /\ r.kt = lastGen.key.keytype
  /\ r.kt = "rsa" => r.a_scheme \in RsaSchemes \cup {""}

\* C6: after generate_and_write_*(filepath, password=P) has returned p, and
\* while p and p.pub are not written again, the matching private import of p
\* with password P returns a key with the generated public value, private
\* value and keyid, and the matching public import of p.pub returns a key
\* with the generated public value and keyid.
C6_RoundTrip ==
  \A c \in Calling :
    LET r == call[c] IN
    /\ ( /\ r.op \in ImportPrivateOps
         /\ ImportsLastGen(r, lastGen.path)
         /\ r.password = ArgStr(lastGen.password) ) =>
           /\ r.status = "returned"
           /\ r.retKey.public = lastGen.key.public
           /\ r.retKey.private = lastGen.key.private
           /\ r.retKey.keyid = lastGen.key.keyid
    /\ ( /\ r.op = "import_publickey"
         /\ ImportsLastGen(r, PubPath(lastGen.path)) ) =>
           /\ r.status = "returned"
           /\ r.retKey.public = lastGen.key.public
           /\ r.retKey.keyid = lastGen.key.keyid

\* C6 witness: an RSA pair written with the empty password was imported back.
C6_Witness ==
  \E c \in Calling :
    /\ call[c].op \in ImportPrivateOps
    /\ ImportsLastGen(call[c], lastGen.path)
    /\ call[c].kt = "rsa"
    /\ lastGen.password = "" /\ call[c].password = ArgStr("")
    /\ call[c].retKey.private = lastGen.key.private

\* The call has encrypted, decrypted, or created or renamed a key file.
HasActed(c) ==
  \/ call[c].encCalls > 0 \/ call[c].decCalls > 0
  \/ tmp[c] # Absent \/ call[c].pubMoved \/ call[c].privMoved

\* C7: in the generate and private-import routines a given password,
\* the empty string included, is used as given without a prompt; an absent
\* password is prompted for, once, before any encryption, decryption or
\* key-file write of the call.
C7_PromptIffPasswordAbsent ==
  \A c \in Calling :
    LET r == call[c] IN
    r.op \in GenerateOps \cup ImportPrivateOps =>
      /\ r.a_password.t # "none" =>
           r.inputs = << >> /\ r.password = r.a_password
      /\ (r.a_password.t = "none" /\ (HasActed(c) \/ r.status = "returned")) =>
           Len(r.inputs) = 1 /\ r.password = ArgStr(r.inputs[1])

\* C7 witness: a generate call without a password argument prompted and
\* returned; the key file is encrypted with the entry.
C7_Witness ==
  \E c \in Calling :
    /\ IsGenerate(call[c]) /\ call[c].a_password.t = "none"
    /\ call[c].status = "returned" /\ call[c].inputs = << "a" >>
    /\ File(call[c].filepath).data.lock = Some("a")

\* The rounds of a confirmed prompt: entry 2i-1 and its confirmation 2i.
Mismatched(inputs, i) == inputs[2 * i - 1] # inputs[2 * i]

\* C8: _get_password(confirm=True) returns only after a round whose entry and
\* confirmation are equal, and returns that value; every earlier round was a
\* mismatch, each answered by one retry notice and a new round of two
\* prompts.
C8_ConfirmAcceptsOnlyMatchingPair ==
  \A c \in Calling :
    LET r == call[c]
        n == Len(r.inputs)
    IN
    (r.op = "_get_password" /\ r.confirm) =>
      /\ r.status = "returned" =>
           /\ n >= 2 /\ n % 2 = 0
           /\ r.inputs[n - 1] = r.inputs[n]
           /\ r.retPw = Some(r.inputs[n])
           /\ \A i \in 1..(n \div 2 - 1) : Mismatched(r.inputs, i)
           /\ r.notices = n \div 2 - 1
      /\ (r.status = "running" /\ n % 2 = 0) =>
           /\ r.pc = "getpass"
           /\ \A i \in 1..(n \div 2) : Mismatched(r.inputs, i)
           /\ r.notices = n \div 2
      /\ (r.status = "running" /\ n % 2 = 1) => r.pc = "getpass_confirm"

\* C8 witness: the entries "", "a", "b", "b" are accepted at the fourth entry.
C8_Witness ==
  \E c \in Calling :
    /\ call[c].op = "_get_password" /\ call[c].confirm
    /\ call[c].status = "returned"
    /\ call[c].inputs = << "", "a", "b", "b" >>
    /\ call[c].retPw = Some("b")

\* The call imports the private file lastGen wrote with a non-empty password,
\* using another password.
WrongPassword(r) ==
  /\ r.op \in ImportPrivateOps /\ Ended(r)
  /\ lastGen.valid /\ lastGen.password # ""
  /\ r.filepath = lastGen.path
  /\ r.password.t = "str" /\ r.password.v # lastGen.password
  /\ r.kt = "rsa" => r.a_scheme \in RsaSchemes

\* C9: a private import of a file written with a non-empty password, given a
\* different password (the empty one included), ends in a cryptographic
\* error -- not a format error -- returns no key, makes exactly one decryption
\* attempt with no further prompt, and leaves the key file unchanged.
C9_WrongPasswordIsCryptoError ==
  \A c \in Calling :
    LET r == call[c] IN
    WrongPassword(r) =>
      /\ r.status = "error" /\ r.err.kind = "CryptoError"
      /\ r.retKey = NoKey
      /\ r.decCalls = 1
      /\ Len(r.inputs) = (IF r.a_password.t = "none" THEN 1 ELSE 0)
      /\ File(r.filepath) = r.pre.priv

\* C9 witness: an Ed25519 key file written with "a" was imported with the
\* empty password.
C9_Witness ==
  \E c \in Calling :
    /\ WrongPassword(call[c])
    /\ call[c].kt = "ed25519" /\ lastGen.key.keytype = "ed25519"
    /\ lastGen.password = "a" /\ call[c].password.v = ""
    /\ call[c].err.kind = "CryptoError"

\* C10: every file at a <filepath>.pub destination holds public material
\* only: a public value, no private value (plain or encrypted), nothing
\* derived from the password.
C10_PubFilesHoldPublicOnly ==
  \A p \in DOMAIN fs :
    p.ext = ".pub" =>
      /\ fs[p].data.public.half = "public"
      /\ fs[p].data.private = NoVal
      /\ fs[p].data.lock = None

\* C10 witness: an Ed25519 pair was written with password "a"; its .pub file
\* is the metadata form of the public value.
C10_Witness ==
  \E c \in Calling :
    /\ IsGenerate(call[c]) /\ call[c].status = "returned"
    /\ call[c].kt = "ed25519" /\ call[c].password.v = "a"
    /\ File(PubPath(call[c].filepath)).data.fmt = "json"
    /\ File(call[c].filepath).data.private # NoVal

\* The call has touched the filesystem: its parent directory was ensured, it
\* holds a temporary file, or it renamed one onto a destination.
HasFileEffect(c) ==
  \/ call[c].parentDir \/ tmp[c] # Absent
  \/ call[c].pubMoved \/ call[c].privMoved

\* C11: when a generate_and_write_* call ends in a format error for a
\* malformed bits, filepath or password argument, no key pair has been
\* generated, no parent directory ensured, no temporary file created and no
\* destination written.
C11_FormatErrorBeforeAnyWork ==
  \A c \in Calling :
    LET r == call[c] IN
    ( /\ r.op \in GenerateOps /\ r.status = "error"
      /\ r.err.kind = "FormatError"
      /\ r.err.named \in {"bits", "filepath", "password"} ) =>
        /\ r.key = NoKey
        /\ ~HasFileEffect(c)
        /\ FilesAt(r.filepath) = r.pre

PublicSteps == {"pub_temp", "pub_write", "pub_move"}
PrivateSteps == {"priv_temp", "priv_write", "priv_move"}

\* C12: in every generate_and_write_* call the parent directory is ensured
\* before any temporary file or rename, the public half is written and
\* renamed before the private half is begun, and whenever the call has put
\* its private payload at <filepath>, <filepath>.pub holds the complete public
\* half of the same key pair.
C12_DirThenPublicThenPrivate ==
  \A c \in Calling :
    LET r == call[c] IN
    r.op \in GenerateOps =>
      /\ (tmp[c] # Absent \/ r.pubMoved) => r.parentDir
      /\ r.parentDir => r.filepath.base \in dirs
      /\ r.privMoved => r.pubMoved
      /\ (r.status = "running" /\ r.pc \in PublicSteps) =>
           /\ ~r.pubMoved /\ ~r.privMoved
           /\ File(r.filepath) = r.pre.priv
      /\ (r.status = "running" /\ r.pc \in PrivateSteps) =>
           /\ r.pubMoved /\ ~r.privMoved
           /\ File(PubPath(r.filepath)) = Complete(PublicFileContents(r.key))
      /\ r.privMoved =>
           /\ File(r.filepath) = Complete(r.private)
           /\ r.private.private = r.key.private
           /\ File(PubPath(r.filepath)) = Complete(PublicFileContents(r.key))

\* C12 witness: an ECDSA call under a new directory has put its private
\* payload at <filepath>; <filepath>.pub already holds its public half.
C12_Witness ==
  \E c \in Calling :
    /\ IsGenerate(call[c]) /\ call[c].kt = "ecdsa-sha2-nistp256"
    /\ call[c].filepath = GivenPath /\ call[c].pre.pub = Absent
    /\ call[c].privMoved
    /\ File(call[c].filepath) = Complete(call[c].private)
    /\ File(PubPath(call[c].filepath)).data.public = call[c].key.public

\* C13: once a generate_and_write_* call has ended in an error, no temporary
\* file it created remains: a temporary file created and not yet renamed was
\* discarded before the error reached the caller.
C13_NoTempFileAfterError ==
  \A c \in Calling :
    (call[c].op \in GenerateOps /\ call[c].status = "error") =>
      tmp[c] = Absent

\* Every complete payload a generate call can write to a destination.
WholePayloads ==
  LET keys == {generate_key(kt, n) : kt \in KeyTypes, n \in 1..MaxKey} IN
  {PublicFileContents(k) : k \in keys}
    \cup {RsaPrivateContents(k.private, pw) : k \in keys, pw \in NewPasswords}
    \cup {EncryptedKeyContents(k, pw) : k \in keys, pw \in NewPasswords}

\* Two different calls with the same filepath.
SamePath(c, d) ==
  /\ c # d /\ IsGenerate(call[c]) /\ IsGenerate(call[d])
  /\ call[c].filepath = call[d].filepath

\* C14: with two generate_and_write_* calls running concurrently on one
\* filepath, each destination holds at every moment all of one payload some
\* writer wrote, never a prefix or a mixture; the writer that renamed onto a
\* destination last has its payload there, also after both calls have
\* finished.
C14_LastRenameWins ==
  /\ \A p \in DOMAIN fs :
       fs[p].fill = "complete" /\ fs[p].data \in WholePayloads
  /\ \A c \in Calling :
       LET r == call[c] IN
       IsGenerate(r) =>
         /\ r.pubLast => File(PubPath(r.filepath)) = Complete(r.public)
         /\ r.privLast => File(r.filepath) = Complete(r.private)
         /\ \A d \in Calling :
              SamePath(c, d) =>
                /\ (r.pubMoved /\ call[d].pubMoved) => (r.pubLast # call[d].pubLast)
                /\ (r.privMoved /\ call[d].privMoved) => (r.privLast # call[d].privLast)

\* C14 witness: two calls with different keys have both returned; both
\* renamed onto <filepath>.pub and it holds the payload of the second.
C14_Witness ==
  \E c, d \in Calling :
    /\ SamePath(c, d)
    /\ call[c].status = "returned" /\ call[d].status = "returned"
    /\ call[c].public # call[d].public
    /\ ~call[c].pubLast /\ call[d].pubLast
    /\ File(PubPath(call[d].filepath)) = Complete(call[d].public)

\* Both calls have returned normally.
BothReturned(c, d) ==
  SamePath(c, d) /\ call[c].status = "returned" /\ call[d].status = "returned"

\* The files at p + '.pub' and p are the two halves of one key pair.
PairConsistent(p) ==
  File(PubPath(p)).data.public = PublicOf(File(p).data.private)

\* C15 as claimed: after two concurrent generate_and_write_* calls with the
\* same filepath have both returned, <filepath>.pub and <filepath> hold the
\* public and private halves of the same key pair, whatever the interleaving.
C15_PairConsistency ==
  \A c, d \in Calling :
    BothReturned(c, d) => PairConsistent(call[c].filepath)

\* C15 as amended: after both calls have returned, <filepath>.pub holds the
\* public half of the call whose public rename came last and <filepath> the
\* private half of the call whose private rename came last; they are halves
\* of one pair when the same call made both last renames.
C15_HalvesOfLastRenamers ==
  \A c, d \in Calling :
    BothReturned(c, d) =>
      \E w1, w2 \in {c, d} :
        /\ call[w1].pubLast /\ call[w2].privLast
        /\ File(PubPath(call[c].filepath)).data.public = call[w1].key.public
        /\ File(call[c].filepath).data.private = call[w2].key.private
        /\ w1 = w2 => PairConsistent(call[c].filepath)

\* C15 witness: both calls returned; the last public rename and the last
\* private rename were made by different calls, and the two files are halves
\* of different key pairs.
C15_Witness ==
  \E c, d \in Calling :
    /\ BothReturned(c, d)
    /\ call[c].pubLast /\ call[d].privLast
    /\ File(PubPath(call[c].filepath)).data.public = call[c].key.public
    /\ File(call[c].filepath).data.private = call[d].key.private
    /\ ~PairConsistent(call[c].filepath)

IsGetPassword(c) == call[c].op = "_get_password" /\ call[c].status # "idle"

\* Some completed round of the inputs has an entry equal to its confirmation.
SomeRoundMatches(inputs) ==
  \E i \in 1..(Len(inputs) \div 2) : ~Mismatched(inputs, i)

\* What holds in every state of a _get_password call: it never gives up;
\* without confirmation it has returned exactly when one entry was read;
\* with confirmation it has returned exactly when a round matched, which is
\* then the last round, and it has printed one notice per mismatched round.
C16_ReturnsIffRoundMatches ==
  \A c \in Calling :
    LET r == call[c]
        n == Len(r.inputs)
    IN
    IsGetPassword(c) =>
      /\ r.status \in {"running", "returned"}
      /\ ~r.confirm =>
           /\ n <= 1 /\ r.notices = 0
           /\ (r.status = "returned") <=> (n = 1)
           /\ r.status = "returned" => r.retPw = Some(r.inputs[1])
      /\ r.confirm =>
           /\ (r.status = "returned") <=> SomeRoundMatches(r.inputs)
           /\ r.status = "returned" => (n % 2 = 0 /\ ~Mismatched(r.inputs, n \div 2))
           /\ r.notices = Cardinality({i \in 1..(n \div 2) : Mismatched(r.inputs, i)})

\* C16: _get_password(confirm=False) returns after exactly one prompt,
\* whatever is entered; _get_password(confirm=True) returns if and only if a
\* round's entry and confirmation are equal (equal inputs that straddle two
\* rounds do not count), and until then it keeps prompting: it never gives
\* up, and goes on through every round the input source is modelled to
\* answer.
C16_PasswordAcquisitionTerminates ==
  /\ []C16_ReturnsIffRoundMatches
  /\ \A c \in SeqProcs :
       (IsGetPassword(c) /\ ~call[c].confirm /\ call[c].status = "running")
         ~> (call[c].status = "returned" /\ Len(call[c].inputs) = 1)
  /\ \A c \in SeqProcs :
       (IsGetPassword(c) /\ call[c].confirm /\ call[c].status = "running")
         ~> \/ call[c].status = "returned" /\ SomeRoundMatches(call[c].inputs)
            \/ /\ call[c].status = "running" /\ call[c].pc = "getpass"
               /\ Len(call[c].inputs) = 2 * MaxRounds
               /\ ~SomeRoundMatches(call[c].inputs)

\* C16 witness: after the entries a, b, b, a the confirmed prompt is still
\* running, with two notices printed.
C16_Witness ==
  \E c \in Calling :
    /\ IsGetPassword(c) /\ call[c].confirm
    /\ call[c].inputs = << "a", "b", "b", "a" >>
    /\ call[c].status = "running" /\ call[c].pc = "getpass"
    /\ call[c].notices = 2
====
